---- MODULE Spec2Model ----
(***************************************************************************)
(* Soft Actor-Critic training loop of RL_Car0 (src/RL/algo.py, SAC.py,     *)
(* train.py).                                                              *)
(*                                                                         *)
(*   Spec        the Trainer.train loop: SAC.step, the is_update gate,     *)
(*               SAC.update's read of the replay buffer, Trainer.evaluate. *)
(*   SpecUpdate  the inside of SAC.update: update_critic, update_actor     *)
(*               (with entropy_adjust_func) and update_target, in the      *)
(*               order of SAC.py:126-132.                                  *)
(*                                                                         *)
(* Numbers: network parameters, log-probabilities and alpha are reals in   *)
(* the program. The model keeps them exact: alpha, min_alpha and the       *)
(* log-probabilities are integer multiples of one quantum (lr_alpha), and  *)
(* a target parameter is the rational num / TauDen^k.  Floating-point      *)
(* rounding is not modelled.                                               *)
(***************************************************************************)
EXTENDS Integers, Sequences, FiniteSets

\* ---------------------------------------------------------------- bounds
MaxSteps == 4        \* num_steps of the modelled run
MaxStart == 3        \* start_steps is drawn from 0..MaxStart
MaxBatch == 3        \* batch_size is drawn from 1..MaxBatch
MaxBuffer == 3       \* buffer_size is drawn from 1..MaxBuffer
MaxEpLen == 2        \* the environment ends an episode after at most this many steps
MaxInterval == 2     \* eval_interval is drawn from 1..MaxInterval

MaxUpdates == 3      \* update() calls in a run of SpecUpdate
MaxMinAlpha == 1     \* min_alpha is drawn from 0..MaxMinAlpha quanta
TauDen == 2          \* tau is drawn from 0/TauDen .. TauDen/TauDen

\* ------------------------------------------------------ program constants
\* num_eval_episodes: the default of Trainer.__init__, train.py passes none
NumEvalEpisodes == 1
\* self.alpha = torch.tensor(min_alpha * 3.0)
AlphaInitFactor == 3
\* optim_alpha = torch.optim.Adam([self.alpha], lr=lr_alpha): beta1 = 9/10
Beta1Num == 9
Beta1Den == 10

VARIABLES
    \* configuration (constructor arguments)
    start_steps, batch_size, buffer_size, eval_interval,
    \* Trainer.train: position, loop variable, episode step count, observation
    pc, steps, t, state,
    \* the environment object shared by Trainer.env and Trainer.env_test
    env,
    \* SAC: replay buffer contents, learning_steps, total_rew
    buf, learning_steps, total_rew,
    \* Trainer.returns['step']
    returns,
    \* the batch the last buffer.sample returned, the last is_update result
    batch, lastIsUpdate,
    \* history: every transition handed to ReplayBuffer.append, in order
    appended,
    \* SAC.update: position inside the call
    upc,
    \* configuration: tau = tau_num / TauDen, min_alpha (in quanta)
    tau_num, min_alpha,
    \* critic and actor parameters; target parameter i is target[i] / TauDen^target_k
    critic, actor, target, target_k,
    \* the entropy coefficient and optim_alpha's state: step count and first
    \* moment estimate, adam_m = exp_avg * batch_size * Beta1Den^adam_t
    alpha, adam_t, adam_m,
    \* history: how the log-probability means fed so far compared with -min_alpha
    fed

trainVars == <<start_steps, batch_size, buffer_size, eval_interval, pc, steps, t, state,
               env, buf, total_rew, returns, lastIsUpdate, appended>>

updVars == <<upc, tau_num, min_alpha, critic, actor, target, target_k, alpha, adam_t,
             adam_m, fed>>

vars == <<trainVars, updVars, learning_steps, batch>>

\* Python's max(a, b)
Max(a, b) == IF b > a THEN b ELSE a

\* ----------------------------------------------------------- environment
\* An observation names the episode and the position in it.
Obs(e) == [ep |-> e.ep, pos |-> e.pos]

\* env.reset(): a new episode starts
EnvReset(e) == [ep |-> e.ep + 1, pos |-> 0, done |-> FALSE]

\* env.step(action): the episode advances; the environment decides done
EnvStep(e, d) == [ep |-> e.ep, pos |-> e.pos + 1, done |-> d]

\* the done flags the environment may return from a step
EnvDones(e) == IF e.pos + 1 >= MaxEpLen THEN {TRUE} ELSE BOOLEAN

\* the reward of the step that reached e: this environment pays the position
EnvReward(e) == e.pos

\* Trainer.__init__: self.env_test = env, the same object as self.env
env_test == env

\* ---------------------------------------------------------- replay buffer
\* ReplayBuffer.__init__: pfrl ReplayBuffer(capacity=buffer_size), a queue
\* that drops its oldest entry when an append takes it over capacity
BufCapacity == buffer_size

\* mutant: the queue is built without a capacity
ReplayBufferAppendUnbounded(b, tr) == Append(b, tr)

\* ReplayBuffer.append
ReplayBufferAppend(b, tr) ==
    LET q == Append(b, tr)
    IN IF Len(q) > BufCapacity THEN Tail(q) ELSE q

\* ReplayBuffer.sample(n): n distinct stored entries (pfrl asserts len >= n)
SampleChoices(b, n) == {S \in SUBSET (1..Len(b)) : Cardinality(S) = n}

\* -------------------------------------------------------------------- SAC
\* mutant: the gate forgets batch_size
is_update_start_only(s) == s >= start_steps

\* SAC.is_update
is_update(s) == s >= Max(start_steps, batch_size)

\* mutant: the warm-up test is strict
ActionSourceStrict(s) == IF s < start_steps THEN "random" ELSE "policy"

\* SAC.step: where the action comes from
ActionSource(s) == IF s <= start_steps THEN "random" ELSE "policy"

\* mutant: on done the observation of the finished episode is returned
StepResultStale(stepped, d, in_t) ==
    IF d
      THEN [env |-> EnvReset(stepped), n_state |-> Obs(stepped), t |-> 0]
      ELSE [env |-> stepped, n_state |-> Obs(stepped), t |-> in_t + 1]

\* SAC.step, after the append: on done the episode counter is zeroed and the
\* environment reset; what is returned is (n_state, t)
StepResult(stepped, d, in_t) ==
    IF d
      THEN [env |-> EnvReset(stepped), n_state |-> Obs(EnvReset(stepped)), t |-> 0]
      ELSE [env |-> stepped, n_state |-> Obs(stepped), t |-> in_t + 1]

\* ------------------------------------------------------------ SAC.update
RECURSIVE Pow(_, _)
Pow(b, e) == IF e = 0 THEN 1 ELSE b * Pow(b, e - 1)

RECURSIVE SumSeq(_)
SumSeq(q) == IF q = <<>> THEN 0 ELSE Head(q) + SumSeq(Tail(q))

Sign(x) == IF x > 0 THEN 1 ELSE IF x < 0 THEN -1 ELSE 0

\* the critic's parameters: one for each of the twin Q networks
ParamIds == {"q1", "q2"}

\* values an optimizer step may leave in a critic or actor parameter
ParamVals == {0, 1}

\* log-probabilities the actor may return for a sampled action, in quanta
LogPiVals == {-2, 1}

\* mutant: the weights of target and critic are swapped
SoftUpdateSwapped(num, k, trained) ==
    num * tau_num + (TauDen - tau_num) * trained * Pow(TauDen, k)

\* update_target, one parameter pair: target.mul_(1 - tau); target.add_(tau * trained)
\* on the numerator of target = num / TauDen^k, giving a numerator over TauDen^(k+1)
SoftUpdate(num, k, trained) ==
    LET scaled == num * (TauDen - tau_num)          \* (1 - tau) * target
        added == tau_num * trained * Pow(TauDen, k) \* tau * trained
    IN scaled + added

\* mutant: the loss is not negated
AlphaGradNotNegated(log_pis) ==
    SumSeq([i \in 1..Len(log_pis) |-> log_pis[i] + min_alpha])

\* entropy_adjust_func: d loss / d alpha for loss = -(alpha * (log_pis + min_alpha)).mean(),
\* times the batch size
AlphaGrad(log_pis) ==
    -SumSeq([i \in 1..Len(log_pis) |-> log_pis[i] + min_alpha])

\* optim_alpha.step(): Adam's first moment, exp_avg = beta1 * exp_avg + (1 - beta1) * grad,
\* kept as the integer exp_avg * batch_size * Beta1Den^step
AdamMoment(m, step, grad) ==
    Beta1Num * m + (Beta1Den - Beta1Num) * Pow(Beta1Den, step - 1) * grad

\* optim_alpha.step(): the parameter moves against the sign of the first moment;
\* the size of Adam's step, lr * |m^| / (sqrt(v^) + eps), is taken as one quantum lr
\* (what it is while the gradients fed so far are equal)
AdamStep(a, m) == a - Sign(m)

\* how a batch of log-probabilities compares with -min_alpha, by its mean
FedClass(log_pis) ==
    LET s == SumSeq([i \in 1..Len(log_pis) |-> log_pis[i] + min_alpha])
    IN IF s < 0 THEN "below" ELSE IF s > 0 THEN "above" ELSE "equal"

\* the training loop's state before train() runs
TrainConstructed ==
    /\ pc = "start"
    /\ steps = 0
    /\ t = 0
    /\ state = [ep |-> 0, pos |-> 0]
    /\ env = [ep |-> 0, pos |-> 0, done |-> FALSE]
    /\ buf = <<>>
    /\ total_rew = 0
    /\ returns = <<>>
    /\ batch = {}
    /\ lastIsUpdate = FALSE
    /\ appended = <<>>

\* SAC.__init__: the networks, alpha and its optimizer
SACConstructed ==
    /\ upc = "idle"
    /\ learning_steps = 0
    /\ critic \in [ParamIds -> ParamVals]
    /\ actor \in ParamVals
    /\ target = critic            \* critic_target.load_state_dict(critic.state_dict())
    /\ target_k = 0
    /\ alpha = min_alpha * AlphaInitFactor
    /\ adam_t = 0
    /\ adam_m = 0
    /\ fed = {}

Init ==
    /\ start_steps \in 0..MaxStart
    /\ batch_size \in 1..MaxBatch
    /\ buffer_size \in 1..MaxBuffer
    /\ eval_interval \in 1..MaxInterval
    /\ tau_num = 1
    /\ min_alpha = 1
    /\ TrainConstructed
    /\ SACConstructed
    /\ critic = [i \in ParamIds |-> 0]
    /\ actor = 0

\* train() at its first update() call: start_steps = 0, batch_size = buffer_size = 2,
\* and two steps of a first episode that ended at the second are in the buffer
AtFirstUpdate ==
    /\ start_steps = 0
    /\ batch_size = 2
    /\ buffer_size = 2
    /\ eval_interval = 2
    /\ pc = "update"
    /\ steps = 2
    /\ t = 0
    /\ state = [ep |-> 2, pos |-> 0]
    /\ env = [ep |-> 2, pos |-> 0, done |-> FALSE]
    /\ buf = << [state |-> [ep |-> 1, pos |-> 0], action |-> "policy", reward |-> 1,
                 done |-> FALSE, next_state |-> [ep |-> 1, pos |-> 1]],
                [state |-> [ep |-> 1, pos |-> 1], action |-> "policy", reward |-> 2,
                 done |-> TRUE, next_state |-> [ep |-> 1, pos |-> 2]] >>
    /\ appended = buf
    /\ total_rew = 0
    /\ returns = <<>>
    /\ batch = {}
    /\ lastIsUpdate = FALSE

InitUpdate ==
    /\ tau_num \in 0..TauDen
    /\ min_alpha \in 0..MaxMinAlpha
    /\ AtFirstUpdate
    /\ SACConstructed

\* Trainer.train, before the loop: t = 0; state = self.env.reset()
TrainBegin ==
    /\ pc = "start"
    /\ env' = EnvReset(env)
    /\ state' = Obs(env')
    /\ t' = 0
    /\ pc' = "step"
    /\ UNCHANGED <<start_steps, batch_size, buffer_size, eval_interval, steps, buf,
                   learning_steps, total_rew, returns, batch, lastIsUpdate, appended>>
    /\ UNCHANGED updVars

\* One loop iteration's  state, t = self.algo.step(self.env, state, t, steps)
TrainStep ==
    /\ pc = "step"
    /\ steps < MaxSteps
    /\ steps' = steps + 1
    /\ \E d \in EnvDones(env) :
         LET stepped == EnvStep(env, d)
             n_state == Obs(stepped)
             rew == EnvReward(stepped)
             tr == [state |-> state, action |-> ActionSource(steps'), reward |-> rew,
                    done |-> d, next_state |-> n_state]
             res == StepResult(stepped, d, t)
         IN /\ buf' = ReplayBufferAppend(buf, tr)
            /\ appended' = Append(appended, tr)
            /\ total_rew' = IF d THEN 0 ELSE total_rew + rew
            /\ env' = res.env
            /\ state' = res.n_state
            /\ t' = res.t
    /\ pc' = "update"
    /\ UNCHANGED <<start_steps, batch_size, buffer_size, eval_interval, learning_steps,
                   returns, batch, lastIsUpdate>>
    /\ UNCHANGED updVars

\* if self.algo.is_update(steps): self.algo.update()
\* update() counts the learning step, then samples; a sample of more entries
\* than are stored raises and ends train(). What update() then does to the
\* networks and to alpha is followed step by step in SpecUpdate.
TrainUpdate ==
    /\ pc = "update"
    /\ lastIsUpdate' = is_update(steps)
    /\ IF is_update(steps)
         THEN /\ learning_steps' = learning_steps + 1
              /\ IF Len(buf) >= batch_size
                   THEN /\ \E S \in SampleChoices(buf, batch_size) :
                              batch' = {buf[i] : i \in S}
                        /\ pc' = "eval"
                   ELSE /\ batch' = batch
                        /\ pc' = "failed"
         ELSE /\ pc' = "eval"
              /\ UNCHANGED <<learning_steps, batch>>
    /\ UNCHANGED <<start_steps, batch_size, buffer_size, eval_interval, steps, t, state,
                   env, buf, total_rew, returns, appended>>
    /\ UNCHANGED updVars

\* if steps % self.eval_interval == 0: self.evaluate(steps)
\* evaluate: num_eval_episodes times, env_test.reset() and step until done
TrainEval ==
    /\ pc = "eval"
    /\ IF steps % eval_interval = 0
         THEN /\ \E len \in 1..MaxEpLen :
                    env_test' = [ep |-> env_test.ep + NumEvalEpisodes, pos |-> len,
                                 done |-> TRUE]
              /\ returns' = Append(returns, steps)
         ELSE UNCHANGED <<env, returns>>
    /\ pc' = "step"
    /\ UNCHANGED <<start_steps, batch_size, buffer_size, eval_interval, steps, t, state,
                   buf, learning_steps, total_rew, batch, lastIsUpdate, appended>>
    /\ UNCHANGED updVars

\* the loop is over: writer.close()
TrainEnd ==
    /\ pc = "step"
    /\ steps = MaxSteps
    /\ pc' = "done"
    /\ UNCHANGED <<start_steps, batch_size, buffer_size, eval_interval, steps, t, state,
                   env, buf, learning_steps, total_rew, returns, batch, lastIsUpdate,
                   appended>>
    /\ UNCHANGED updVars

Next == TrainBegin \/ TrainStep \/ TrainUpdate \/ TrainEval \/ TrainEnd

Spec == Init /\ [][Next]_vars

\* ---------------------------------------------------- inside SAC.update
\* update(): self.learning_steps += 1; the batch = self.buffer.sample(self.batch_size)
UpdateBegin ==
    /\ upc = "idle"
    /\ pc = "update"
    /\ is_update(steps)
    /\ learning_steps < MaxUpdates
    /\ learning_steps' = learning_steps + 1
    /\ Len(buf) >= batch_size
    /\ \E S \in SampleChoices(buf, batch_size) : batch' = {buf[i] : i \in S}
    /\ upc' = "critic"
    /\ UNCHANGED <<trainVars, tau_num, min_alpha, critic, actor, target, target_k, alpha,
                   adam_t, adam_m, fed>>

\* mutant: optim_critic is also given the target network's parameters
UpdateCriticAndTarget ==
    /\ upc = "critic"
    /\ critic' \in [ParamIds -> ParamVals]
    /\ target' = [i \in ParamIds |-> critic'[i] * Pow(TauDen, target_k)]
    /\ upc' = "actor"
    /\ UNCHANGED <<trainVars, learning_steps, batch, tau_num, min_alpha, actor,
                   target_k, alpha, adam_t, adam_m, fed>>

\* update_critic: the loss reads critic, critic_target, actor and alpha;
\* optim_critic.step() writes the critic's parameters
UpdateCritic ==
    /\ upc = "critic"
    /\ critic' \in [ParamIds -> ParamVals]
    /\ upc' = "actor"
    /\ UNCHANGED <<trainVars, learning_steps, batch, tau_num, min_alpha, actor, target,
                   target_k, alpha, adam_t, adam_m, fed>>

\* update_actor: optim_actor.step() writes the actor's parameters, then
\* entropy_adjust_func(log_pis) steps alpha with optim_alpha
UpdateActor ==
    /\ upc = "actor"
    /\ actor' \in ParamVals
    /\ \E log_pis \in [1..batch_size -> LogPiVals] :
         /\ adam_t' = adam_t + 1
         /\ adam_m' = AdamMoment(adam_m, adam_t', AlphaGrad(log_pis))
         /\ alpha' = AdamStep(alpha, adam_m')
         /\ fed' = fed \cup {FedClass(log_pis)}
    /\ upc' = "target"
    /\ UNCHANGED <<trainVars, learning_steps, batch, tau_num, min_alpha, critic, target,
                   target_k>>

\* update_target: every target parameter moves towards its critic parameter
UpdateTarget ==
    /\ upc = "target"
    /\ target' = [i \in ParamIds |-> SoftUpdate(target[i], target_k, critic[i])]
    /\ target_k' = target_k + 1
    /\ upc' = "idle"
    /\ UNCHANGED <<trainVars, learning_steps, batch, tau_num, min_alpha, critic, actor,
                   alpha, adam_t, adam_m, fed>>

NextUpdate == UpdateBegin \/ UpdateCritic \/ UpdateActor \/ UpdateTarget

SpecUpdate == InitUpdate /\ [][NextUpdate]_vars

\* ================================================================ claims
Range(q) == {q[i] : i \in 1..Len(q)}

Min(a, b) == IF a <= b THEN a ELSE b

Abs(x) == IF x < 0 THEN -x ELSE x

\* C1: whenever update() is invoked (is_update(steps) holds after the append of
\* that iteration), the replay buffer holds at least batch_size transitions.
UpdateHasEnoughData ==
    (pc = "update" /\ is_update(steps)) => Len(buf) >= batch_size

\* C2: whenever the training loop is about to call algo.step, the (state, t) it
\* carries describe the environment's current in-progress episode: the
\* observation is the environment's, the episode is not over, and t is the number
\* of steps taken in it.
TrainingEpisodeIntact ==
    (pc = "step" /\ steps < MaxSteps) =>
        (state = Obs(env) /\ ~env.done /\ t = env.pos)

\* C3: is_update(steps) is false below max(start_steps, batch_size) and true at
\* and above it, for every integer steps, and so is the result the loop acted on.
IsUpdateGate ==
    /\ \A s \in -1..(MaxSteps + MaxStart + MaxBatch) :
          /\ (s < start_steps \/ s < batch_size) => ~is_update(s)
          /\ (s >= start_steps /\ s >= batch_size) => is_update(s)
    /\ (pc \in {"eval", "failed"}) =>
          (lastIsUpdate <=> (steps >= start_steps /\ steps >= batch_size))

IsUpdateGateWitness ==
    /\ pc = "eval"
    /\ lastIsUpdate
    /\ steps = batch_size
    /\ start_steps < batch_size
    /\ learning_steps = 1

\* C4: the action of the i-th environment step is the environment's random
\* sample when the i-1 steps taken before it are fewer than start_steps, and the
\* policy's sample otherwise.
WarmupActions ==
    \A i \in 1..Len(appended) :
        /\ (i - 1 < start_steps) => appended[i].action = "random"
        /\ (i - 1 >= start_steps) => appended[i].action = "policy"

WarmupActionsWitness ==
    /\ start_steps > 0
    /\ Len(appended) > start_steps
    /\ appended[start_steps].action = "random"
    /\ appended[start_steps + 1].action = "policy"

\* C5: the buffer holds min(number of appends, capacity) transitions, never more
\* than its capacity: exactly the most recently appended ones, in insertion
\* order; the older ones are gone, and a sample draws from the stored ones only.
BufferFifo ==
    LET n == Len(appended)
        k == Min(n, buffer_size)
    IN /\ Len(buf) = k
       /\ Len(buf) <= buffer_size
       /\ buf = SubSeq(appended, n - k + 1, n)
       /\ \A i \in 1..(n - k) : appended[i] \notin Range(buf)
       /\ (pc = "eval" /\ lastIsUpdate) =>
             (batch \subseteq Range(SubSeq(appended, n - k + 1, n)))

BufferFifoWitness ==
    /\ Len(appended) > buffer_size + 1
    /\ Len(buf) = buffer_size
    /\ pc = "eval"
    /\ lastIsUpdate
    /\ batch # {}

\* C10: a step appends exactly one transition, made of the state passed in and
\* the observation env.step returned; when done, the environment is reset, the
\* reset observation is returned and t is 0; otherwise the returned state is
\* next_state and t is one more.
StepEpisodeBoundary ==
    [][(pc = "step" /\ pc' = "update") =>
        LET tr == buf'[Len(buf')]
            stepObs == [ep |-> env.ep, pos |-> env.pos + 1]
        IN /\ buf' = IF Len(buf) < buffer_size
                       THEN Append(buf, tr)
                       ELSE Append(Tail(buf), tr)
           /\ tr.state = state
           /\ tr.next_state = stepObs
           /\ tr.done =>
                 /\ env' = [ep |-> env.ep + 1, pos |-> 0, done |-> FALSE]
                 /\ state' = [ep |-> env.ep + 1, pos |-> 0]
                 /\ t' = 0
           /\ ~tr.done =>
                 /\ env' = [ep |-> env.ep, pos |-> env.pos + 1, done |-> FALSE]
                 /\ state' = tr.next_state
                 /\ t' = t + 1
    ]_vars

StepEpisodeBoundaryWitness ==
    /\ pc = "update"
    /\ steps >= 2
    /\ buffer_size >= 2
    /\ buf[Len(buf)].done
    /\ ~buf[Len(buf) - 1].done
    /\ t = 0
    /\ state = [ep |-> buf[Len(buf)].next_state.ep + 1, pos |-> 0]

\* C6, as claimed: while every call has fed a mean below -min_alpha, a call of
\* entropy_adjust_func does not decrease alpha; while every call has fed a mean
\* above it, a call does not increase alpha.
AlphaRisesWhenFedBelow ==
    [][(upc = "actor" /\ upc' = "target") =>
        /\ (fed' = {"below"}) => alpha' >= alpha
        /\ (fed' = {"above"}) => alpha' <= alpha
    ]_vars

\* C6, amended: while every call has fed a mean below -min_alpha, a call of
\* entropy_adjust_func does not increase alpha; while every call has fed a mean
\* above it, a call does not decrease alpha.
AlphaFallsWhenFedBelow ==
    [][(upc = "actor" /\ upc' = "target") =>
        /\ (fed' = {"below"}) => alpha' <= alpha
        /\ (fed' = {"above"}) => alpha' >= alpha
    ]_vars

AlphaFallsWhenFedBelowWitness ==
    /\ fed = {"below"}
    /\ adam_t >= 2
    /\ alpha < min_alpha * AlphaInitFactor

\* C7: alpha is at least 0 whenever it scales the Q-target (update_critic) or the
\* actor loss (update_actor).
AlphaNonNegative ==
    (upc \in {"critic", "actor"}) => alpha >= 0

\* C8: the target parameters equal the critic's after construction, only
\* update_target changes them, and each update() call runs it once, after the
\* critic and actor updates.
TargetOnlyByUpdateTarget ==
    /\ []((learning_steps = 0) => (target = critic /\ target_k = 0))
    /\ [](target_k = IF upc = "idle" THEN learning_steps ELSE learning_steps - 1)
    /\ [][(upc # "target") => UNCHANGED <<target, target_k>>]_vars

TargetOnlyByUpdateTargetWitness ==
    /\ upc = "idle"
    /\ learning_steps = 2
    /\ target_k = 2
    /\ \E i \in ParamIds : target[i] # critic[i] * Pow(TauDen, target_k)

\* C9: update_target sets every target parameter to (1 - tau) * target + tau *
\* critic: it equals the critic parameter when tau = 1, is unchanged when tau = 0,
\* and for 0 < tau < 1 is strictly closer to the critic parameter than before
\* unless it was equal to it.
SoftUpdateTracks ==
    [][(upc = "target" /\ upc' = "idle") =>
        \A i \in ParamIds :
            LET scale == Pow(TauDen, target_k)
                \* |target - critic| before, times TauDen^k
                d0 == Abs(target[i] - critic[i] * scale)
                \* |target - critic| after, times TauDen^(k+1)
                d1 == Abs(target'[i] - critic[i] * scale * TauDen)
            IN /\ target_k' = target_k + 1
               /\ target'[i] = (TauDen - tau_num) * target[i] + tau_num * critic[i] * scale
               /\ (tau_num = TauDen) => d1 = 0
               /\ (tau_num = 0) => target'[i] = target[i] * TauDen
               /\ (0 < tau_num /\ tau_num < TauDen /\ d0 # 0) => d1 < d0 * TauDen
    ]_vars

SoftUpdateTracksWitness ==
    /\ upc = "idle"
    /\ target_k >= 1
    /\ 0 < tau_num
    /\ tau_num < TauDen
    /\ \E i \in ParamIds : target[i] # critic[i] * Pow(TauDen, target_k)

====
